---- MODULE Spec2Model ----
(***************************************************************************)
(* Model of DocumentSourceInternalDensify (document_source_densify.cpp):   *)
(* the pull-based densification stage, its DocGenerator and its partition  *)
(* table.  Densify values are integers; a document is a record carrying    *)
(* its partition key, whether it has the densify field, the field's value  *)
(* and whether it was synthesised by a DocGenerator.                       *)
(***************************************************************************)
EXTENDS Integers, Sequences, FiniteSets, TLC

\* ------------------------------------------------------------------ bounds
MaxVal == 4
MaxLen == 3
MaxStep == 2
NumKeys == 2
MaxLow == 3
MaxArray == 3
MaxSpecVal == 2

\* Default of the server parameter internalQueryMaxAllowedDensifyDocs.
DefaultMaxDocs == 500000

VARIABLES
    range,           \* _range: [step, kind, lo, hi]
    partitions,      \* _partitions.size() != 0
    maxDocs,         \* _maxDocs
    source,          \* pSource: the documents upstream has delivered so far
    srcDone,         \* pSource has answered EOF (and keeps answering it)
    densifyState,    \* _densifyState
    current,         \* _current   (optional: <<>> or <<v>>)
    globalMin,       \* _globalMin (optional)
    globalMax,       \* _globalMax (optional)
    eof,             \* _eof
    docGenerator,    \* _docGenerator (optional DocGenerator)
    partitionTable,  \* _partitionTable: partition key -> last value
    partitionExpr,   \* _partitionExpr has been built
    docsGenerated,   \* _docsGenerated
    out,             \* documents returned to the consumer so far
    ret,             \* result of the last doGetNext call
    failure,         \* assertion raised by the last doGetNext call
    call,            \* what the last doGetNext call did
    gap,             \* the last pull that opened a gap
    stageSpec,       \* the $densify specification handed to createFromBson
    created,         \* what createFromBsonInternal answered
    results          \* the stages a createFromBson entry point returned

vars == <<range, partitions, maxDocs, source, srcDone, densifyState, current,
          globalMin, globalMax, eof, docGenerator, partitionTable,
          partitionExpr, docsGenerated, out, ret, failure, call, gap,
          stageSpec, created, results>>

\* ------------------------------------------------------------ value domain
None == <<>>
Some(v) == <<v>>

Keys == 1..NumKeys
NoKey == 0

addValues(lhs, rhs) == lhs + rhs

subtractValues(lhs, rhs) == lhs - rhs

\* ExpressionMod::apply: the remainder takes the sign of the dividend.
modValues(a, b) == IF a >= 0 THEN a % b ELSE 0 - ((0 - a) % b)

valOffsetFromStep(val, sub, step) == modValues(subtractValues(val, sub), step)

\* ---------------------------------------------------------------- documents
RealDoc(id, k, v) == [id |-> id, key |-> k, has |-> TRUE, val |-> v, syn |-> FALSE]

MissingDoc(id, k) == [id |-> id, key |-> k, has |-> FALSE, val |-> 0, syn |-> FALSE]

GeneratedDoc_DensifyFieldOnly(includeFields, v) ==
    [id |-> 0, key |-> NoKey, has |-> TRUE, val |-> v, syn |-> TRUE]

\* MutableDocument retDoc(_includeFields); retDoc.setNestedField(_path, v)
GeneratedDoc(includeFields, v) ==
    [id |-> 0,
     key |-> IF includeFields = None THEN NoKey ELSE includeFields[1],
     has |-> TRUE, val |-> v, syn |-> TRUE]

NoDoc == [id |-> 0, key |-> NoKey, has |-> FALSE, val |-> 0, syn |-> FALSE]

Advanced(doc) == [kind |-> "advanced", doc |-> doc]
MakeEOF == [kind |-> "eof", doc |-> NoDoc]
Thrown == [kind |-> "error", doc |-> NoDoc]
NotCalled == [kind |-> "none", doc |-> NoDoc]

getDensifyValue(doc) == doc.val

getDensifyPartition(doc) == doc.key

\* ------------------------------------------------------------ engine record
\* The mutable members of the stage, gathered so that the helper functions
\* can be written as functions from members to members.
Engine ==
    [st |-> densifyState, cur |-> current, gmin |-> globalMin,
     gmax |-> globalMax, eof |-> eof, gen |-> docGenerator,
     tbl |-> partitionTable, pexpr |-> partitionExpr,
     docs |-> docsGenerated, err |-> "none", pulls |-> 0, gsteps |-> 0]

Res(e, r) == [e |-> e, r |-> r]

Fail(e, code) == Res([e EXCEPT !.err = code], Thrown)

Put(f, k, v) == [x \in (DOMAIN f) \cup {k} |-> IF x = k THEN v ELSE f[x]]

Erase(f, k) == [x \in (DOMAIN f) \ {k} |-> f[x]]

EmptyTable == [x \in {} |-> 0]

setPartitionValue(e, doc) ==
    IF e.pexpr
    THEN [e EXCEPT !.tbl = Put(e.tbl, getDensifyPartition(doc), getDensifyValue(doc))]
    ELSE e

initializePartitionState(e, initialDoc) ==
    setPartitionValue([e EXCEPT !.pexpr = TRUE], initialDoc)

\* --------------------------------------------------------------- generator
\* DocGenerator::DocGenerator; 'hi' is _range.getBounds().second of the range
\* handed to the generator.  tassert 5733303 fires when min is above it.
GeneratorCtorOk(min, hi) == hi >= min

NewGenerator_DropsFinalDoc(min, step, hi, includeFields, finalDoc) ==
    [min |-> min, step |-> step, hi |-> hi, includeFields |-> includeFields,
     finalDoc |-> None, state |-> "kGeneratingDocuments"]

NewGenerator(min, step, hi, includeFields, finalDoc) ==
    [min |-> min, step |-> step, hi |-> hi, includeFields |-> includeFields,
     finalDoc |-> finalDoc, state |-> "kGeneratingDocuments"]

createDocGenerator(e, min, step, hi, includeFields, finalDoc) ==
    IF GeneratorCtorOk(min, hi)
    THEN [e EXCEPT !.gen = Some(NewGenerator(min, step, hi, includeFields, finalDoc))]
    ELSE [e EXCEPT !.err = "tassert5733303"]

GeneratorDone(g) == g.state = "kDone"

GeneratorStateAfter_StopsEarly(g, nextValue) ==
    IF nextValue >= g.hi
    THEN IF g.finalDoc # None THEN "kReturningFinalDocument" ELSE "kDone"
    ELSE g.state

GeneratorStateAfter_ForgetsFinal(g, nextValue) ==
    IF nextValue > g.hi THEN "kDone" ELSE g.state

\* The state the generator takes once the value after the one just produced
\* is known.
GeneratorStateAfter(g, nextValue) ==
    IF nextValue > g.hi
    THEN IF g.finalDoc # None THEN "kReturningFinalDocument" ELSE "kDone"
    ELSE g.state

getNextDocument_ReturnsAdvancedValue(e) ==
    LET g == e.gen[1] IN
    IF g.state = "kDone" THEN Fail(e, "tassert5733301")
    ELSE IF g.state = "kReturningFinalDocument"
    THEN Res([e EXCEPT !.gen = Some([g EXCEPT !.state = "kDone"]), !.gsteps = @ + 1],
             Advanced(g.finalDoc[1]))
    ELSE LET nextValue == addValues(g.min, g.step)
         IN Res([e EXCEPT !.gen = Some([g EXCEPT !.state = GeneratorStateAfter(g, nextValue),
                                                 !.min = nextValue]),
                          !.docs = @ + 1,
                          !.gsteps = @ + 1],
                Advanced(GeneratedDoc(g.includeFields, nextValue)))

getNextDocument_CountsFinalDoc(e) ==
    LET g == e.gen[1] IN
    IF g.state = "kDone" THEN Fail(e, "tassert5733301")
    ELSE IF g.state = "kReturningFinalDocument"
    THEN Res([e EXCEPT !.gen = Some([g EXCEPT !.state = "kDone"]),
                       !.docs = @ + 1,
                       !.gsteps = @ + 1],
             Advanced(g.finalDoc[1]))
    ELSE LET nextValue == addValues(g.min, g.step)
         IN Res([e EXCEPT !.gen = Some([g EXCEPT !.state = GeneratorStateAfter(g, nextValue),
                                                 !.min = nextValue]),
                          !.docs = @ + 1,
                          !.gsteps = @ + 1],
                Advanced(GeneratedDoc(g.includeFields, g.min)))

\* DocGenerator::getNextDocument on the engine's generator.
getNextDocument(e) ==
    LET g == e.gen[1] IN
    IF g.state = "kDone" THEN Fail(e, "tassert5733301")
    ELSE IF g.state = "kReturningFinalDocument"
    THEN IF g.finalDoc = None THEN Fail(e, "tassert5832800")
         ELSE Res([e EXCEPT !.gen = Some([g EXCEPT !.state = "kDone"]),
                            !.gsteps = @ + 1],
                  Advanced(g.finalDoc[1]))
    ELSE LET valueToAdd == g.min
             nextValue == addValues(g.min, g.step)
         IN Res([e EXCEPT !.gen = Some([g EXCEPT !.state = GeneratorStateAfter(g, nextValue),
                                                 !.min = nextValue]),
                          !.docs = @ + 1,
                          !.gsteps = @ + 1],
                Advanced(GeneratedDoc(g.includeFields, valueToAdd)))

\* ------------------------------------------------------- engine: helpers
Step == range.step

processRange(val, cur, bounds) ==
    IF val < cur THEN "kBelow"
    ELSE IF val = cur THEN "kRangeMin"
    ELSE IF val <= bounds.hi THEN "kInside"
    ELSE "kAbove"

compareToNextStep(e, val) ==
    LET currentPlusStep == addValues(e.cur[1], Step) IN
    IF currentPlusStep < val THEN 0 - 1
    ELSE IF currentPlusStep = val THEN 0 ELSE 1

resetDocGenState_NeverFinishing(e, bounds) ==
    IF e.cur[1] >= bounds.hi /\ ~e.pexpr THEN "kDensifyDone" ELSE "kNeedGen"

\* Checks if the generator is done, changes states accordingly.
resetDocGenState(e, bounds) ==
    IF e.cur[1] >= bounds.hi /\ ~e.pexpr THEN "kDensifyDone"
    ELSE IF e.pexpr /\ e.eof THEN "kFinishingDensify"
    ELSE "kNeedGen"

resetDocGen_KeepsGenerator(e, bounds) ==
    IF GeneratorDone(e.gen[1])
    THEN [e EXCEPT !.st = resetDocGenState(e, bounds)]
    ELSE e

resetDocGen(e, bounds) ==
    IF GeneratorDone(e.gen[1])
    THEN [e EXCEPT !.st = resetDocGenState(e, bounds), !.gen = None]
    ELSE e

AboveMinUpperBound_NoClamp(val, rem, bounds) ==
    IF rem = 0 THEN subtractValues(val, Step) ELSE val

\* Upper bound of the generator processDocAboveMinBound builds for 'val'.
AboveMinUpperBound(val, rem, bounds) ==
    LET adjusted == IF rem = 0 THEN subtractValues(val, Step) ELSE val
    IN IF adjusted <= bounds.hi THEN adjusted ELSE bounds.hi

processDocAboveMinBound(e, val, bounds, doc) ==
    IF ~(e.cur[1] <= bounds.hi) THEN Fail(e, "tassert8423306")
    ELSE
    LET lowerBound == addValues(e.cur[1], Step)
        rem == valOffsetFromStep(val, e.cur[1], Step)
    IN IF rem = 0 /\ val = lowerBound
       THEN Res([setPartitionValue(e, doc) EXCEPT !.cur = Some(lowerBound)], Advanced(doc))
       ELSE
       LET upperBound == AboveMinUpperBound(val, rem, bounds)
           e1 == createDocGenerator(e, lowerBound, Step, upperBound,
                                    IF e.pexpr THEN Some(getDensifyPartition(doc)) ELSE None,
                                    Some(doc))
       IN IF e1.err # "none" THEN Res(e1, Thrown)
          ELSE
          LET g == getNextDocument(e1)
              nextFromGen == g.r.doc
              e2 == [g.e EXCEPT !.cur = Some(getDensifyValue(nextFromGen)),
                                !.st = "kHaveGenerator"]
              e3 == resetDocGen(e2, bounds)
          IN Res(setPartitionValue(e3, nextFromGen), Advanced(nextFromGen))

processFirstDocForExplicitRange(e, val, bounds, doc) ==
    LET e0 == IF e.cur = None
              THEN [e EXCEPT !.cur = Some(subtractValues(bounds.lo, Step))]
              ELSE e
        where == processRange(val, e0.cur[1], bounds)
    IN CASE where = "kInside" -> processDocAboveMinBound(e0, val, bounds, doc)
         [] where = "kAbove" -> processDocAboveMinBound(e0, val, bounds, doc)
         [] where = "kRangeMin" ->
                Res([e0 EXCEPT !.st = "kNeedGen", !.cur = Some(val)], Advanced(doc))
         [] where = "kBelow" -> Res(e0, Advanced(doc))

\* First value densifyAfterEOF generates when something was seen before.
AfterEOFDone(cur, bounds) == addValues(cur, Step) >= bounds.hi

densifyAfterEOF(e, bounds) ==
    IF e.cur # None /\ AfterEOFDone(e.cur[1], bounds)
    THEN Res([e EXCEPT !.st = "kDensifyDone"], MakeEOF)
    ELSE
    LET e1 == IF e.cur = None
              THEN createDocGenerator([e EXCEPT !.cur = Some(bounds.lo)],
                                      bounds.lo, Step, range.hi, None, None)
              ELSE createDocGenerator(e, addValues(e.cur[1], Step), Step, range.hi,
                                      None, None)
    IN IF e1.err # "none" THEN Res(e1, Thrown)
       ELSE
       LET g == getNextDocument([e1 EXCEPT !.st = "kHaveGenerator"])
       IN IF GeneratorDone(g.e.gen[1])
          THEN Res([g.e EXCEPT !.st = "kDensifyDone", !.gen = None], g.r)
          ELSE g

\* _partitionTable.begin(): the table is an unordered map, so the entry it
\* yields is the first key of some ordering 'ord' of the keys.
Begin(tbl, ord) ==
    ord[CHOOSE i \in 1..Len(ord) :
            /\ ord[i] \in DOMAIN tbl
            /\ \A j \in 1..(i - 1) : ord[j] \notin DOMAIN tbl]

\* Value the EOF flush starts generating at for a partition whose stored
\* value is 'stored'.
FlushStart(stored, minOverride) ==
    LET valToGenerate == addValues(stored, Step)
    IN IF minOverride # None /\ valToGenerate < minOverride[1]
       THEN minOverride[1] ELSE valToGenerate

\* Whether the flush skips a partition whose stored value is 'stored'.
FlushSkips(stored, max) == addValues(stored, Step) > max

RECURSIVE finishDensifyingPartitionedInputHelper(_, _, _, _)
finishDensifyingPartitionedInputHelper(e, max, minOverride, ord) ==
    IF DOMAIN e.tbl = {}
    THEN Res([e EXCEPT !.st = "kDensifyDone"], MakeEOF)
    ELSE
    LET firstPartition == Begin(e.tbl, ord)
        firstPartitionVal == e.tbl[firstPartition]
    IN IF FlushSkips(firstPartitionVal, max)
       THEN finishDensifyingPartitionedInputHelper(
                [e EXCEPT !.tbl = Erase(e.tbl, firstPartition)], max, minOverride, ord)
       ELSE
       LET valToGenerate == FlushStart(firstPartitionVal, minOverride)
           e1 == createDocGenerator(e, valToGenerate, Step, max,
                                    Some(firstPartition), None)
       IN IF e1.err # "none" THEN Res(e1, Thrown)
          ELSE
          LET e2 == [e1 EXCEPT !.tbl = Erase(e1.tbl, firstPartition),
                               !.st = "kHaveGenerator"]
              g == getNextDocument(e2)
          IN IF GeneratorDone(g.e.gen[1])
             THEN Res([g.e EXCEPT !.gen = None, !.st = "kFinishingDensify"], g.r)
             ELSE g

\* Reading *_globalMax while it is boost::none is undefined: the build either
\* stops on the optional's assertion or reads whatever the storage holds.
UBOutcomes == [abort : BOOLEAN, v : 0..MaxVal]

finishDensifyingPartitionedInput(e, ord, ub) ==
    IF DOMAIN e.tbl = {}
    THEN Res([e EXCEPT !.st = "kDensifyDone"], MakeEOF)
    ELSE CASE range.kind = "Full" ->
                IF e.gmax # None
                THEN finishDensifyingPartitionedInputHelper(e, e.gmax[1], None, ord)
                ELSE IF ub.abort THEN Fail(e, "unsetGlobalMax")
                ELSE finishDensifyingPartitionedInputHelper(e, ub.v, None, ord)
           [] range.kind = "Partition" -> Fail(e, "unreachablePartition")
           [] range.kind = "DateBounds" -> Fail(e, "unreachableDateBounds")
           [] range.kind = "NumericBounds" ->
                finishDensifyingPartitionedInputHelper(e, range.hi, Some(range.lo), ord)

handleSourceExhausted(e, ord, ub) ==
    LET e1 == [e EXCEPT !.eof = TRUE] IN
    CASE range.kind = "Full" ->
            IF e1.pexpr THEN finishDensifyingPartitionedInput(e1, ord, ub)
            ELSE Res([e1 EXCEPT !.st = "kDensifyDone"], MakeEOF)
      [] range.kind = "Partition" -> Res([e1 EXCEPT !.st = "kDensifyDone"], MakeEOF)
      [] range.kind = "DateBounds" -> Fail(e1, "tasserted5734000")
      [] range.kind = "NumericBounds" ->
            IF e1.pexpr THEN finishDensifyingPartitionedInput(e1, ord, ub)
            ELSE densifyAfterEOF(e1, range)

\* Upper bound of the generator handleNeedGen builds for a document at 'max'.
NeedGenMaxAdjusted(max, cur) ==
    IF valOffsetFromStep(max, cur, Step) = 0 THEN subtractValues(max, Step) ELSE max

handleNeedGen(e, currentDoc, max) ==
    LET compRes == compareToNextStep(e, max)
        e0 == IF compRes = 0
              THEN [setPartitionValue(e, currentDoc) EXCEPT !.cur = Some(max)]
              ELSE e
    IN IF compRes >= 0 THEN Res(e0, Advanced(currentDoc))
       ELSE
       LET maxAdjusted == NeedGenMaxAdjusted(max, e0.cur[1])
           newCurrent == addValues(e0.cur[1], Step)
           e1 == createDocGenerator(e0, newCurrent, Step, maxAdjusted,
                                    IF e0.pexpr THEN Some(getDensifyPartition(currentDoc))
                                    ELSE None,
                                    Some(currentDoc))
       IN IF e1.err # "none" THEN Res(e1, Thrown)
          ELSE
          LET g == getNextDocument([e1 EXCEPT !.st = "kHaveGenerator"])
              nextDoc == g.r.doc
              e2 == IF GeneratorDone(g.e.gen[1])
                    THEN [g.e EXCEPT !.gen = None, !.st = "kNeedGen"]
                    ELSE g.e
              e3 == [e2 EXCEPT !.cur = Some(getDensifyValue(nextDoc))]
          IN Res(setPartitionValue(e3, nextDoc), Advanced(nextDoc))

handleNeedGenExplicit(e, currentDoc, val, bounds) ==
    LET where == processRange(val, e.cur[1], bounds)
        nextStep == addValues(e.cur[1], Step)
    IN CASE where = "kInside" ->
              IF val = nextStep
              THEN Res(setPartitionValue([e EXCEPT !.cur = Some(val)], currentDoc),
                       Advanced(currentDoc))
              ELSE IF val < nextStep THEN Res(e, Advanced(currentDoc))
              ELSE processDocAboveMinBound(e, val, bounds, currentDoc)
         [] where = "kAbove" ->
              IF nextStep > bounds.hi
              THEN LET e1 == setPartitionValue([e EXCEPT !.cur = Some(nextStep)], currentDoc)
                   IN Res(IF ~e1.pexpr THEN [e1 EXCEPT !.st = "kDensifyDone"] ELSE e1,
                          Advanced(currentDoc))
              ELSE processDocAboveMinBound(e, val, bounds, currentDoc)
         [] where = "kRangeMin" ->
              Res([setPartitionValue(e, currentDoc) EXCEPT !.cur = Some(val)],
                  Advanced(currentDoc))
         [] where = "kBelow" ->
              Res([setPartitionValue(e, currentDoc) EXCEPT
                       !.st = "kUninitializedOrBelowRange"],
                  Advanced(currentDoc))

\* ---------------------------------------------------------------- doGetNext
\* pSource->getNext(): 'up' is what upstream answers to this call.
SourceExhausted(up) == up.kind = "eof"

Pulled(up) == up.doc

AfterPull(e) == [e EXCEPT !.pulls = @ + 1]

\* case DensifyState::kUninitializedOrBelowRange, a document with the field.
UninitializedWithField_DensifiesDates(e, doc) ==
    LET val == getDensifyValue(doc)
        e1 == IF partitions /\ ~e.pexpr THEN initializePartitionState(e, doc) ELSE e
    IN CASE range.kind = "Full" ->
              Res([e1 EXCEPT !.cur = Some(val), !.gmin = Some(val), !.st = "kNeedGen"],
                  Advanced(doc))
         [] range.kind = "Partition" ->
              IF ~e1.pexpr THEN Fail(e1, "tassert5734400")
              ELSE Res([e1 EXCEPT !.st = "kNeedGen"], Advanced(doc))
         [] range.kind \in {"NumericBounds", "DateBounds"} ->
              processFirstDocForExplicitRange(e1, val, range, doc)

\* case DensifyState::kUninitializedOrBelowRange, a document with the field.
UninitializedWithField(e, doc) ==
    LET val == getDensifyValue(doc)
        e1 == IF partitions /\ ~e.pexpr THEN initializePartitionState(e, doc) ELSE e
    IN CASE range.kind = "Full" ->
              Res([e1 EXCEPT !.cur = Some(val), !.gmin = Some(val), !.st = "kNeedGen"],
                  Advanced(doc))
         [] range.kind = "Partition" ->
              IF ~e1.pexpr THEN Fail(e1, "tassert5734400")
              ELSE Res([e1 EXCEPT !.st = "kNeedGen"], Advanced(doc))
         [] range.kind = "DateBounds" -> Fail(e1, "tassert5733412")
         [] range.kind = "NumericBounds" ->
              processFirstDocForExplicitRange(e1, val, range, doc)

\* The value of _current that kNeedGen compares a Full-bounds document against.
NeedGenFullCurrent(e, doc) ==
    IF ~e.pexpr THEN e.cur
    ELSE IF getDensifyPartition(doc) \notin DOMAIN e.tbl
    THEN Some(subtractValues(e.gmin[1], Step))
    ELSE Some(e.tbl[getDensifyPartition(doc)])

NeedGenFull(e, doc) ==
    LET val == getDensifyValue(doc)
        e1 == IF e.pexpr THEN [e EXCEPT !.gmax = Some(val)] ELSE e
        e2 == [e1 EXCEPT !.cur = NeedGenFullCurrent(e, doc)]
        e3 == IF e.pexpr /\ getDensifyPartition(doc) \notin DOMAIN e.tbl
              THEN setPartitionValue(e2, doc) ELSE e2
    IN handleNeedGen(e3, doc, val)

NeedGenPartition_FromOtherPartition(e, doc) ==
    IF getDensifyPartition(doc) \notin DOMAIN e.tbl
    THEN handleNeedGen([setPartitionValue(e, doc) EXCEPT
                            !.cur = Some(e.tbl[CHOOSE k \in DOMAIN e.tbl : TRUE])],
                       doc, getDensifyValue(doc))
    ELSE handleNeedGen([e EXCEPT !.cur = Some(e.tbl[getDensifyPartition(doc)])],
                       doc, getDensifyValue(doc))

NeedGenPartition(e, doc) ==
    IF getDensifyPartition(doc) \notin DOMAIN e.tbl
    THEN Res(setPartitionValue(e, doc), Advanced(doc))
    ELSE handleNeedGen([e EXCEPT !.cur = Some(e.tbl[getDensifyPartition(doc)])],
                       doc, getDensifyValue(doc))

NeedGenNumericBounds(e, doc) ==
    LET val == getDensifyValue(doc) IN
    IF e.pexpr /\ getDensifyPartition(doc) \notin DOMAIN e.tbl
    THEN processFirstDocForExplicitRange(
             [setPartitionValue(e, doc) EXCEPT !.cur = None], val, range, doc)
    ELSE handleNeedGenExplicit(
             IF e.pexpr THEN [e EXCEPT !.cur = Some(e.tbl[getDensifyPartition(doc)])]
             ELSE e,
             doc, val, range)

NeedGenWithField(e, doc) ==
    CASE range.kind = "Full" -> NeedGenFull(e, doc)
      [] range.kind = "Partition" -> NeedGenPartition(e, doc)
      [] range.kind = "NumericBounds" -> NeedGenNumericBounds(e, doc)

\* State after a Full-bounds generator has handed out a document.
HaveGeneratorFullState(e) == IF e.eof /\ e.pexpr THEN "kFinishingDensify" ELSE "kNeedGen"

\* The bookkeeping Full and Partition bounds do for a generated document.
OnStepBookkeeping(e, generatedDoc) ==
    LET genDensifyVal == getDensifyValue(generatedDoc) IN
    IF compareToNextStep(e, genDensifyVal) = 0
    THEN setPartitionValue([e EXCEPT !.cur = Some(genDensifyVal)], generatedDoc)
    ELSE e

ExplicitBookkeeping_RecordsPrevious(e, generatedDoc) ==
    LET val == getDensifyValue(generatedDoc) IN
    IF valOffsetFromStep(val, e.cur[1], Step) = 0
    THEN setPartitionValue([e EXCEPT !.cur = Some(val)],
                           [generatedDoc EXCEPT !.val = subtractValues(val, Step)])
    ELSE e

\* The bookkeeping explicit bounds do for a generated document.
ExplicitBookkeeping(e, generatedDoc) ==
    LET val == getDensifyValue(generatedDoc) IN
    IF valOffsetFromStep(val, e.cur[1], Step) = 0
    THEN setPartitionValue([e EXCEPT !.cur = Some(val)], generatedDoc)
    ELSE e

HaveGenerator_StepsTwice(e) ==
    LET g == getNextDocument(e) IN
    IF g.e.err # "none" \/ GeneratorDone(g.e.gen[1]) THEN g ELSE getNextDocument(g.e)

HaveGenerator(e) ==
    IF e.gen = None \/ GeneratorDone(e.gen[1]) THEN Fail(e, "tassert5733203")
    ELSE
    LET g == getNextDocument(e)
        generatedDoc == g.r.doc
    IN CASE range.kind = "Full" ->
              Res(OnStepBookkeeping(
                      IF GeneratorDone(g.e.gen[1])
                      THEN [g.e EXCEPT !.gen = None, !.st = HaveGeneratorFullState(g.e)]
                      ELSE g.e,
                      generatedDoc), g.r)
         [] range.kind = "Partition" ->
              Res(OnStepBookkeeping(
                      IF GeneratorDone(g.e.gen[1])
                      THEN [g.e EXCEPT !.gen = None, !.st = "kNeedGen"]
                      ELSE g.e,
                      generatedDoc), g.r)
         [] range.kind = "NumericBounds" ->
              Res(resetDocGen(ExplicitBookkeeping(g.e, generatedDoc), range), g.r)

DensifyDone_ResumesDensifying(e, up) ==
    Res([AfterPull(e) EXCEPT !.st = IF SourceExhausted(up) THEN @ ELSE "kNeedGen"], up)

DensifyDone_SwallowsRecord(e, up) == Res(AfterPull(e), MakeEOF)

\* case DensifyState::kDensifyDone: whatever upstream answers is returned;
\* under Full bounds it must be EOF.
DensifyDone(e, up) ==
    IF range.kind = "Full" /\ ~SourceExhausted(up)
    THEN Fail(AfterPull(e), "tassert5734005")
    ELSE Res(AfterPull(e), up)

PassUnmodified_ForgetsCurrent(e, up) == Res([AfterPull(e) EXCEPT !.cur = None], up)

\* The densify field is not present: the pulled document is returned as is.
PassUnmodified(e, up) == Res(AfterPull(e), up)

\* The body of doGetNext after the limit check, by state.
doGetNext(e, ord, ub, up) ==
    CASE e.st = "kUninitializedOrBelowRange" ->
            IF SourceExhausted(up) THEN handleSourceExhausted(AfterPull(e), ord, ub)
            ELSE IF ~Pulled(up).has THEN PassUnmodified(e, up)
            ELSE UninitializedWithField(AfterPull(e), Pulled(up))
      [] e.st = "kNeedGen" ->
            IF e.gen # None THEN Fail(e, "tassert8423305")
            ELSE IF SourceExhausted(up) THEN handleSourceExhausted(AfterPull(e), ord, ub)
            ELSE IF ~Pulled(up).has THEN PassUnmodified(e, up)
            ELSE NeedGenWithField(AfterPull(e), Pulled(up))
      [] e.st = "kHaveGenerator" -> HaveGenerator(e)
      [] e.st = "kFinishingDensify" ->
            IF ~e.eof THEN Fail(e, "tassert5734402")
            ELSE finishDensifyingPartitionedInput(e, ord, ub)
      [] e.st = "kDensifyDone" -> DensifyDone(e, up)

\* ------------------------------------------------------------ configuration
Steps == 1..MaxStep

\* RangeStatement values RangeStatement::parse accepts (numeric domain).
ExplicitRanges ==
    {[step |-> s, kind |-> "NumericBounds", lo |-> b[1], hi |-> b[2]] :
        s \in Steps, b \in {c \in (0..MaxLow) \X (0..(MaxVal - 1)) : c[1] <= c[2]}}

Ranges ==
    {[step |-> s, kind |-> k, lo |-> 0, hi |-> 0] : s \in Steps, k \in {"Full", "Partition"}}
        \cup ExplicitRanges

ConfigAccepted_Always(r, p) == TRUE

\* createFromBsonInternal: 'partition' bounds need a non-empty partition list.
ConfigAccepted(r, p) == r.kind = "Partition" => p

Limits == {1, 2, DefaultMaxDocs}

\* ------------------------------------------------------------ construction
\* BSON values of a range specification: numbers, strings and dates, which
\* the value comparator orders by type first (number < string < date).
Numbers == [t : {"number"}, v : (0 - 1)..MaxSpecVal]

Dates == [t : {"date"}, v : 0..1]

Strings == [t : {"string"}, v : {0}]

Elements == Numbers \cup Dates \cup Strings

TypeRank(x) == CASE x.t = "number" -> 1 [] x.t = "string" -> 2 [] x.t = "date" -> 3

Ascending_Strict(a, b) ==
    TypeRank(a) < TypeRank(b) \/ (TypeRank(a) = TypeRank(b) /\ a.v < b.v)

\* comp.evaluate(Value(array[0]) <= Value(array[1]))
Ascending(a, b) ==
    TypeRank(a) < TypeRank(b) \/ (TypeRank(a) = TypeRank(b) /\ a.v <= b.v)

TimeUnits == {"day", "hour"}

\* parseTimeUnit: the unit's name to the TimeUnit it names.
parseTimeUnit(name) == [unit |-> name]

Accepted(step, bounds, unit) == [ok |-> TRUE, code |-> 0, step |-> step, bounds |-> bounds, unit |-> unit]

Rejected(code) ==
    [ok |-> FALSE, code |-> code, step |-> 0,
     bounds |-> [kind |-> "none", lo |-> 0, hi |-> 0], unit |-> None]

ParseArray(array, unit) ==
    IF Len(array) # 2 THEN Rejected(5733403)
    ELSE IF ~Ascending(array[1], array[2]) THEN Rejected(5733402)
    ELSE IF array[1].t = "number"
         THEN IF unit # None THEN Rejected(5733409)
              ELSE IF array[2].t # "number" THEN Rejected(5733406)
              ELSE [ok |-> TRUE, code |-> 0, step |-> 0, unit |-> None,
                    bounds |-> [kind |-> "NumericBounds", lo |-> array[1].v, hi |-> array[2].v]]
    ELSE IF array[1].t = "date"
         THEN IF array[2].t # "date" THEN Rejected(5733405)
              ELSE IF unit = None THEN Rejected(5733410)
              ELSE [ok |-> TRUE, code |-> 0, step |-> 0, unit |-> None,
                    bounds |-> [kind |-> "DateBounds", lo |-> array[1].v, hi |-> array[2].v]]
    ELSE Rejected(5946800)

ParseString(str) ==
    CASE str = "full" ->
            [ok |-> TRUE, code |-> 0, step |-> 0, unit |-> None,
             bounds |-> [kind |-> "Full", lo |-> 0, hi |-> 0]]
      [] str = "partition" ->
            [ok |-> TRUE, code |-> 0, step |-> 0, unit |-> None,
             bounds |-> [kind |-> "Partition", lo |-> 0, hi |-> 0]]
      [] OTHER -> Rejected(5946802)

\* RangeStatement::parse
RangeStatementParse(spec) ==
    IF ~(spec.step.t = "number" /\ spec.step.v > 0) THEN Rejected(5733401)
    ELSE
    LET unit == IF spec.unit # None THEN Some(parseTimeUnit(spec.unit[1])) ELSE None
        bounds == CASE spec.bounds.type = "Array" -> ParseArray(spec.bounds.array, unit)
                    [] spec.bounds.type = "String" -> ParseString(spec.bounds.str)
                    [] OTHER -> Rejected(5733404)
    IN IF ~bounds.ok THEN bounds
       ELSE Accepted(spec.step.v, bounds.bounds, unit)

\* createFromBsonInternal: the range is parsed, then 'partition' bounds are
\* refused without partition fields; otherwise the stage is created.
createFromBsonInternal(spec) ==
    LET rangeStatement == RangeStatementParse(spec.range)
        partitionsGiven == spec.partitionByFields # None /\ Len(spec.partitionByFields[1]) > 0
    IN IF ~rangeStatement.ok
       THEN [ok |-> FALSE, code |-> rangeStatement.code, range |-> rangeStatement,
             partitions |-> FALSE]
       ELSE IF ~ConfigAccepted(rangeStatement.bounds, partitionsGiven)
       THEN [ok |-> FALSE, code |-> 5733408, range |-> rangeStatement, partitions |-> FALSE]
       ELSE [ok |-> TRUE, code |-> 0, range |-> rangeStatement,
             partitions |-> partitionsGiven]

\* The specifications a caller can hand in.
ArraysUpTo(n) == UNION {[1..k -> Elements] : k \in 0..n}

BoundsSpecs ==
    {[type |-> "Array", array |-> a, str |-> ""] : a \in ArraysUpTo(MaxArray)}
        \cup {[type |-> "String", array |-> <<>>, str |-> t] : t \in {"full", "partition", "other"}}
        \cup {[type |-> "NumberInt", array |-> <<>>, str |-> ""]}

RangeSpecs ==
    [step : Elements, bounds : BoundsSpecs, unit : {None} \cup {Some(u) : u \in TimeUnits}]

StageSpecs ==
    [range : RangeSpecs, partitionByFields : {None, Some(<<>>), Some(<<"p">>)}]

NoStageSpec ==
    [range |-> [step |-> [t |-> "number", v |-> 1],
                bounds |-> [type |-> "String", array |-> <<>>, str |-> "full"],
                unit |-> None],
     partitionByFields |-> None]

NotCreated == [ok |-> FALSE, code |-> 0, range |-> Rejected(0), partitions |-> FALSE]

\* The densify field of every specification.
DensifyField == "x"

SortStage(sortParts) == [name |-> "$sort", sortParts |-> sortParts]

InternalDensifyStage(field, partitionFields, rangeStatement) ==
    [name |-> "$_internalDensify", field |-> field, partitions |-> partitionFields,
     range |-> rangeStatement]

create_SortsByPartitionUnderFull(partitionFields, field, rangeStatement, isInternal) ==
    (IF ~isInternal THEN <<SortStage(partitionFields \o <<field>>)>> ELSE <<>>)
        \o <<InternalDensifyStage(field, partitionFields, rangeStatement)>>

\* document_source_densify::create: the list of stages.
create(partitionFields, field, rangeStatement, isInternal) ==
    (IF ~isInternal
     THEN <<SortStage((IF rangeStatement.bounds.kind # "Full"
                       THEN partitionFields ELSE <<>>) \o <<field>>)>>
     ELSE <<>>)
        \o <<InternalDensifyStage(field, partitionFields, rangeStatement)>>

\* createFromBsonInternal, as the list of stages it returns (or the code it
\* raises).
createStages(spec, isInternal) ==
    LET made == createFromBsonInternal(spec)
        partitionFields == IF spec.partitionByFields # None
                           THEN spec.partitionByFields[1] ELSE <<>>
    IN IF ~made.ok THEN [ok |-> FALSE, code |-> made.code, stages |-> <<>>]
       ELSE [ok |-> TRUE, code |-> 0,
             stages |-> create(partitionFields, DensifyField, made.range, isInternal)]

NoResults == [by |-> "none", ok |-> FALSE, code |-> 0, stages |-> <<>>]

\* The specifications whose stages are built: every step, unit and kind of
\* bounds (arrays of two elements), and partition lists of up to two fields.
PartitionFieldNames == {"p", "q"}

PartitionLists ==
    {<<>>} \cup {<<a>> : a \in PartitionFieldNames}
           \cup {l \in PartitionFieldNames \X PartitionFieldNames : l[1] # l[2]}

DesugarSpecs ==
    [range : {r \in RangeSpecs : r.bounds.type = "Array" => Len(r.bounds.array) = 2},
     partitionByFields : {None} \cup {Some(l) : l \in PartitionLists}]

\* ------------------------------------------------------------------ upstream
SourceKeys(p) == IF p THEN Keys ELSE {1}

\* The documents upstream can deliver as its n-th document.
SourceDocs(p, n) ==
    [id : {n}, key : SourceKeys(p), has : {TRUE}, val : 0..MaxVal, syn : {FALSE}]
        \cup {MissingDoc(n, 1)}

\* The documents of 'src' that carry the densify field are in non-decreasing
\* order of it: over the whole stream, or within each partition key.
AscendingOnField(src) ==
    \A i, j \in 1..Len(src) :
        (i < j /\ src[i].has /\ src[j].has) => src[i].val <= src[j].val

AscendingPerPartition(src) ==
    \A i, j \in 1..Len(src) :
        (i < j /\ src[i].has /\ src[j].has /\ src[i].key = src[j].key)
            => src[i].val <= src[j].val

\* The stage runs behind the sort stage create() puts in front of it: by the
\* densify field alone under Full bounds, by partition and then field
\* otherwise (upstream may interleave the partitions).
SourceOrdered(r, src) ==
    IF r.kind = "Full" THEN AscendingOnField(src) ELSE AscendingPerPartition(src)

\* Partition keys are named in the order upstream first shows them.
KeysInOrderOfAppearance(src) ==
    \A i \in 1..Len(src) :
        (src[i].has /\ src[i].key > 1)
            => \E j \in 1..(i - 1) : src[j].has /\ src[j].key = src[i].key - 1

EndOfStream == [kind |-> "eof", doc |-> NoDoc]

\* What pSource->getNext() can answer next: EOF for good once it has said
\* so, otherwise EOF or one more document that keeps the stream ordered.
UpstreamAnswers ==
    IF srcDone \/ Len(source) >= MaxLen THEN {EndOfStream}
    ELSE {EndOfStream} \cup
         {Advanced(d) : d \in {c \in SourceDocs(partitions, Len(source) + 1) :
                                  /\ SourceOrdered(range, Append(source, c))
                                  /\ KeysInOrderOfAppearance(Append(source, c))}}

\* ------------------------------------------------------------------- actions
Orders == {o \in [1..NumKeys -> Keys] : \A i, j \in 1..NumKeys : o[i] = o[j] => i = j}

FirstOrder == [i \in 1..NumKeys |-> i]

NoUB == [abort |-> TRUE, v |-> 0]

\* Whether this call reaches the EOF flush over the partition table.
MayFlush(up) ==
    \/ densifyState = "kFinishingDensify"
    \/ densifyState \in {"kUninitializedOrBelowRange", "kNeedGen"} /\ SourceExhausted(up)

OrderChoices(up) ==
    IF MayFlush(up) /\ Cardinality(DOMAIN partitionTable) > 1 THEN Orders ELSE {FirstOrder}

UBChoices(up) ==
    IF MayFlush(up) /\ range.kind = "Full" /\ globalMax = None /\ DOMAIN partitionTable # {}
    THEN UBOutcomes ELSE {NoUB}

\* The value of _current the handlers compare a pulled document against.
LastValueAtPull(e, doc) ==
    CASE e.st = "kUninitializedOrBelowRange" /\ range.kind = "NumericBounds" ->
            IF e.cur = None THEN Some(subtractValues(range.lo, Step)) ELSE e.cur
      [] e.st = "kNeedGen" /\ range.kind = "Full" -> NeedGenFullCurrent(e, doc)
      [] e.st = "kNeedGen" /\ range.kind = "Partition" ->
            IF getDensifyPartition(doc) \in DOMAIN e.tbl
            THEN Some(e.tbl[getDensifyPartition(doc)]) ELSE None
      [] e.st = "kNeedGen" /\ range.kind = "NumericBounds" ->
            IF e.pexpr /\ getDensifyPartition(doc) \notin DOMAIN e.tbl
            THEN Some(subtractValues(range.lo, Step))
            ELSE IF e.pexpr THEN Some(e.tbl[getDensifyPartition(doc)]) ELSE e.cur
      [] OTHER -> None

NoGap == [open |-> FALSE, last |-> 0, doc |-> NoDoc, start |-> 0]

GapAfter(e, up) ==
    IF e.st \in {"kUninitializedOrBelowRange", "kNeedGen"}
       /\ ~SourceExhausted(up)
       /\ Pulled(up).has
       /\ LastValueAtPull(e, Pulled(up)) # None
       /\ Pulled(up).val > addValues(LastValueAtPull(e, Pulled(up))[1], Step)
    THEN [open |-> TRUE, last |-> LastValueAtPull(e, Pulled(up))[1],
          doc |-> Pulled(up), start |-> Len(out)]
    ELSE gap

Install(res, up) ==
    /\ densifyState' = res.e.st
    /\ current' = res.e.cur
    /\ globalMin' = res.e.gmin
    /\ globalMax' = res.e.gmax
    /\ eof' = res.e.eof
    /\ docGenerator' = res.e.gen
    /\ partitionTable' = res.e.tbl
    /\ partitionExpr' = res.e.pexpr
    /\ docsGenerated' = res.e.docs
    /\ source' = IF res.e.pulls > 0 /\ ~SourceExhausted(up)
                 THEN Append(source, Pulled(up)) ELSE source
    /\ srcDone' = (srcDone \/ (res.e.pulls > 0 /\ SourceExhausted(up)))
    /\ failure' = res.e.err
    /\ ret' = IF res.e.err # "none" THEN Thrown ELSE res.r
    /\ out' = IF res.e.err = "none" /\ res.r.kind = "advanced"
              THEN Append(out, res.r.doc) ELSE out
    /\ call' = [st |-> densifyState, pulls |-> res.e.pulls, gens |-> res.e.gsteps,
                got |-> res.e.pulls > 0 /\ ~SourceExhausted(up)]
    /\ gap' = IF res.e.pulls > 0 THEN GapAfter(Engine, up) ELSE gap
    /\ UNCHANGED <<range, partitions, maxDocs, stageSpec, created, results>>

WithinLimit_NotWhenDone ==
    failure = "none" /\ (docsGenerated <= maxDocs \/ densifyState = "kDensifyDone")

WithinLimit_OneMore == failure = "none" /\ docsGenerated <= maxDocs + 1

\* doGetNext passes its limit check: uassert 5897900 does not fire, and no
\* earlier call has raised an internal assertion.
WithinLimit == failure = "none" /\ docsGenerated <= maxDocs

GetNextUninitializedOrBelowRange ==
    /\ WithinLimit
    /\ densifyState = "kUninitializedOrBelowRange"
    /\ \E up \in UpstreamAnswers :
          \E ord \in OrderChoices(up), ub \in UBChoices(up) :
              Install(doGetNext(Engine, ord, ub, up), up)

GetNextNeedGen ==
    /\ WithinLimit
    /\ densifyState = "kNeedGen"
    /\ \E up \in UpstreamAnswers :
          \E ord \in OrderChoices(up), ub \in UBChoices(up) :
              Install(doGetNext(Engine, ord, ub, up), up)

GetNextHaveGenerator ==
    /\ WithinLimit
    /\ densifyState = "kHaveGenerator"
    /\ Install(doGetNext(Engine, FirstOrder, NoUB, EndOfStream), EndOfStream)

GetNextFinishingDensify ==
    /\ WithinLimit
    /\ densifyState = "kFinishingDensify"
    /\ \E ord \in OrderChoices(EndOfStream), ub \in UBChoices(EndOfStream) :
          Install(doGetNext(Engine, ord, ub, EndOfStream), EndOfStream)

GetNextDensifyDone ==
    /\ WithinLimit
    /\ densifyState = "kDensifyDone"
    /\ \E up \in UpstreamAnswers : Install(doGetNext(Engine, FirstOrder, NoUB, up), up)

\* doGetNext entered with the count over the limit: uassert 5897900.
GetNextOverLimit ==
    /\ failure \in {"none", "uassert5897900"}
    /\ docsGenerated > maxDocs
    /\ failure' = "uassert5897900"
    /\ ret' = Thrown
    /\ call' = [st |-> densifyState, pulls |-> 0, gens |-> 0, got |-> FALSE]
    /\ UNCHANGED <<range, partitions, maxDocs, source, srcDone, densifyState, current,
                   globalMin, globalMax, eof, docGenerator, partitionTable,
                   partitionExpr, docsGenerated, out, gap, stageSpec, created, results>>

Init ==
    /\ range \in Ranges
    /\ partitions \in BOOLEAN
    /\ ConfigAccepted(range, partitions)
    /\ maxDocs \in Limits
    /\ source = <<>>
    /\ srcDone = FALSE
    /\ densifyState = "kUninitializedOrBelowRange"
    /\ current = None
    /\ globalMin = None
    /\ globalMax = None
    /\ eof = FALSE
    /\ docGenerator = None
    /\ partitionTable = EmptyTable
    /\ partitionExpr = FALSE
    /\ docsGenerated = 0
    /\ out = <<>>
    /\ ret = NotCalled
    /\ failure = "none"
    /\ call = [st |-> "kUninitializedOrBelowRange", pulls |-> 0, gens |-> 0, got |-> FALSE]
    /\ gap = NoGap
    /\ stageSpec = NoStageSpec
    /\ created = NotCreated
    /\ results = NoResults

Next ==
    \/ GetNextUninitializedOrBelowRange
    \/ GetNextNeedGen
    \/ GetNextHaveGenerator
    \/ GetNextFinishingDensify
    \/ GetNextDensifyDone
    \/ GetNextOverLimit

Spec == Init /\ [][Next]_vars

\* The consumer keeps calling doGetNext for as long as a call can be made.
SpecLive == Init /\ [][Next]_vars /\ WF_vars(Next)

\* Construction alone: a specification is handed to createFromBson, which
\* answers with a stage or with a configuration error; nothing is streamed.
EngineIdle ==
    /\ range = [step |-> 1, kind |-> "Full", lo |-> 0, hi |-> 0]
    /\ partitions = FALSE
    /\ maxDocs = DefaultMaxDocs
    /\ source = <<>>
    /\ srcDone = FALSE
    /\ densifyState = "kUninitializedOrBelowRange"
    /\ current = None
    /\ globalMin = None
    /\ globalMax = None
    /\ eof = FALSE
    /\ docGenerator = None
    /\ partitionTable = EmptyTable
    /\ partitionExpr = FALSE
    /\ docsGenerated = 0
    /\ out = <<>>
    /\ ret = NotCalled
    /\ failure = "none"
    /\ call = [st |-> "kUninitializedOrBelowRange", pulls |-> 0, gens |-> 0, got |-> FALSE]
    /\ gap = NoGap

InitCreate ==
    /\ EngineIdle
    /\ stageSpec \in StageSpecs
    /\ created = NotCreated
    /\ results = NoResults

CreateFromBson ==
    /\ created = NotCreated
    /\ created' = createFromBsonInternal(stageSpec)
    /\ UNCHANGED <<range, partitions, maxDocs, source, srcDone, densifyState, current,
                   globalMin, globalMax, eof, docGenerator, partitionTable,
                   partitionExpr, docsGenerated, out, ret, failure, call, gap, stageSpec, results>>

NextCreate == CreateFromBson

SpecCreate == InitCreate /\ [][NextCreate]_vars

\* The two createFromBson entry points, each called once on a specification.
InitDesugar ==
    /\ EngineIdle
    /\ stageSpec \in DesugarSpecs
    /\ created = NotCreated
    /\ results = NoResults

EngineUntouched ==
    UNCHANGED <<range, partitions, maxDocs, source, srcDone, densifyState, current,
                globalMin, globalMax, eof, docGenerator, partitionTable,
                partitionExpr, docsGenerated, out, ret, failure, call, gap, stageSpec>>

\* document_source_densify::createFromBson ($densify)
CreateDensify ==
    /\ results.by # "$densify"
    /\ created' = createFromBsonInternal(stageSpec)
    /\ results' = [by |-> "$densify"] @@ createStages(stageSpec, FALSE)
    /\ EngineUntouched

\* DocumentSourceInternalDensify::createFromBson ($_internalDensify)
CreateInternalDensify ==
    /\ results.by # "$_internalDensify"
    /\ created' = createFromBsonInternal(stageSpec)
    /\ results' =
          LET made == createStages(stageSpec, TRUE)
          IN [by |-> "$_internalDensify"] @@
                 (IF made.ok /\ Len(made.stages) # 1
                  THEN [ok |-> FALSE, code |-> 5733413, stages |-> <<>>]
                  ELSE made)
    /\ EngineUntouched

NextDesugar ==
    \/ CreateDensify
    \/ CreateInternalDensify

SpecDesugar == InitDesugar /\ [][NextDesugar]_vars

\* Construction followed by streaming, for specifications whose bounds are a
\* pair of dates.
DateStageSpecs ==
    [range : [step : Elements,
              bounds : {[type |-> "Array", array |-> <<a, b>>, str |-> ""] :
                           a \in Dates, b \in Dates},
              unit : {None} \cup {Some(u) : u \in TimeUnits}],
     partitionByFields : {None, Some(<<>>), Some(<<"p">>)}]

InitDate ==
    /\ EngineIdle
    /\ stageSpec \in DateStageSpecs
    /\ created = NotCreated
    /\ results = NoResults

\* create(): the stage is constructed with the parsed range and partitions.
CreateStage ==
    /\ created = NotCreated
    /\ created' = createFromBsonInternal(stageSpec)
    /\ IF created'.ok
       THEN /\ range' = [step |-> created'.range.step,
                         kind |-> created'.range.bounds.kind,
                         lo |-> created'.range.bounds.lo,
                         hi |-> created'.range.bounds.hi]
            /\ partitions' = created'.partitions
       ELSE UNCHANGED <<range, partitions>>
    /\ UNCHANGED <<maxDocs, source, srcDone, densifyState, current,
                   globalMin, globalMax, eof, docGenerator, partitionTable,
                   partitionExpr, docsGenerated, out, ret, failure, call, gap, stageSpec, results>>

\* doGetNext on a stage that was created.  With date bounds the state never
\* leaves kUninitializedOrBelowRange, so this is the only case that runs.
GetNextOfCreated ==
    /\ created.ok
    /\ GetNextUninitializedOrBelowRange

NextDate ==
    \/ CreateStage
    \/ GetNextOfCreated

SpecDate == InitDate /\ [][NextDate]_vars

\* A DocGenerator alone: it is constructed over [min, hi] with a step, carry
\* fields and possibly a final document, and getNextDocument is called on it
\* again and again, also after it is done.
GeneratorRanges ==
    {[step |-> st, kind |-> "NumericBounds", lo |-> a, hi |-> b] :
        st \in Steps, a \in 0..MaxVal, b \in 0..MaxVal}

FinalDocs == {None} \cup {Some(RealDoc(1, k, v)) : k \in Keys, v \in 0..MaxVal}

CarryFields == {None} \cup {Some(k) : k \in Keys}

InitGen ==
    /\ range \in GeneratorRanges
    /\ GeneratorCtorOk(range.lo, range.hi)
    /\ \E includeFields \in CarryFields, finalDoc \in FinalDocs :
          docGenerator =
              Some(NewGenerator(range.lo, range.step, range.hi, includeFields, finalDoc))
    /\ partitions = FALSE
    /\ maxDocs = DefaultMaxDocs
    /\ source = <<>>
    /\ srcDone = FALSE
    /\ densifyState = "kHaveGenerator"
    /\ current = None
    /\ globalMin = None
    /\ globalMax = None
    /\ eof = FALSE
    /\ partitionTable = EmptyTable
    /\ partitionExpr = FALSE
    /\ docsGenerated = 0
    /\ out = <<>>
    /\ ret = NotCalled
    /\ failure = "none"
    /\ call = [st |-> "kHaveGenerator", pulls |-> 0, gens |-> 0, got |-> FALSE]
    /\ gap = NoGap
    /\ stageSpec = NoStageSpec
    /\ created = NotCreated
    /\ results = NoResults

GeneratorGetNext ==
    /\ failure = "none"
    /\ Install(getNextDocument(Engine), EndOfStream)

NextGen == GeneratorGetNext

SpecGen == InitGen /\ [][NextGen]_vars

\* ===================================================================== claims
NoLimit == maxDocs = DefaultMaxDocs

\* The only failure so far, if any, is the generated-document limit.
LimitOnly == failure \in {"none", "uassert5897900"}

WithField(src) == {a \in 1..Len(src) : src[a].has}

\* Two documents belong to the same partition (the whole stream when no
\* partitioning is configured).
SamePartition(a, b) == ~partitions \/ a.key = b.key

\* The documents returned since the last gap was opened.
GapSegment == SubSeq(out, gap.start + 1, Len(out))

\* How many steps lie strictly between the last value and the document that
\* opened the gap, and not above the active upper bound.
GapSteps ==
    Cardinality({x \in (gap.last + 1)..(gap.doc.val - 1) :
                    /\ (x - gap.last) % Step = 0
                    /\ range.kind = "NumericBounds" => x <= range.hi})

\* C1: for an input ascending on the densify field, once a pulled document's
\* value v is strictly greater than lastValue + step, the call returns a
\* document, and the documents returned from then on are the synthetic values
\* lastValue + step, lastValue + 2*step, ... below v (and not above the upper
\* bound), each once and in order, directly followed by the real document v.
C1_GapFilledExactly ==
    (AscendingOnField(source) /\ gap.open) =>
        /\ Len(GapSegment) >= 1
        /\ \A i \in 1..Len(GapSegment) :
              IF i <= GapSteps
              THEN GapSegment[i].syn /\ GapSegment[i].val = gap.last + i * Step
              ELSE i = GapSteps + 1 => GapSegment[i] = gap.doc

\* C2: in the output of any partition a synthetic document never has the same
\* densify value as another document of that partition.
C2_NoSyntheticDuplicate ==
    \A i, j \in 1..Len(out) :
        (i # j /\ out[i].syn /\ out[j].has /\ SamePartition(out[i], out[j]))
            => out[i].val # out[j].val

\* C3: restricted to one partition (the whole stream without partitioning),
\* the densify values of the documents returned so far, real and synthetic,
\* EOF flush included, are non-decreasing.
C3_NonDecreasingPerPartition ==
    \A i, j \in 1..Len(out) :
        (i < j /\ out[i].has /\ out[j].has /\ SamePartition(out[i], out[j]))
            => out[i].val <= out[j].val

\* The values low, low + s, ... that do not exceed high.
ExplicitGridSize == ((range.hi - range.lo) \div Step) + 1

\* C4: explicit numeric bounds, no partitioning, upstream at EOF from the
\* start: the engine returns the synthetic values low, low + s, low + 2s, ...
\* not above high, in order, each once, and only then EndOfStream.
C4_StepCoverageNoInput ==
    (range.kind = "NumericBounds" /\ ~partitions /\ source = <<>> /\ srcDone) =>
        /\ LimitOnly
        /\ Len(out) <= ExplicitGridSize
        /\ \A i \in 1..Len(out) :
              out[i].syn /\ out[i].val = range.lo + (i - 1) * Step
        /\ (ret.kind = "eof" /\ NoLimit) => Len(out) = ExplicitGridSize

\* The whole grid, ending on high itself, was returned and EOF followed.
C4_Witness ==
    /\ range.kind = "NumericBounds" /\ ~partitions /\ source = <<>> /\ srcDone
    /\ ret.kind = "eof"
    /\ Len(out) >= 2
    /\ out[Len(out)].val = range.hi

\* The densify values upstream delivers, and the real documents of a key.
SourceVals == {source[a].val : a \in WithField(source)}

KeyVals(k) == {source[a].val : a \in {b \in WithField(source) : source[b].key = k}}

SetMin(S) == CHOOSE x \in S : \A y \in S : x <= y

SetMax(S) == CHOOSE x \in S : \A y \in S : x >= y

\* Some document of 'docs' at a position in 'idx' is synthetic with key k
\* (any key when k is NoKey) and value g.
SyntheticAt(docs, idx, k, g) ==
    \E i \in idx : docs[i].syn /\ docs[i].val = g /\ (k = NoKey \/ docs[i].key = k)

\* C5: explicit numeric bounds without partitioning: when the engine returns
\* EndOfStream, every grid value low + k*step up to and including high that
\* lies above all values of the input has been returned as a synthetic
\* document.
C5_ExplicitRangeCoveredAfterEOF ==
    (range.kind = "NumericBounds" /\ ~partitions /\ NoLimit /\ ret.kind = "eof") =>
        \A g \in range.lo..range.hi :
            ((g - range.lo) % Step = 0 /\ \A v \in SourceVals : v < g)
                => SyntheticAt(out, 1..Len(out), NoKey, g)

\* C6: under explicit numeric bounds, with or without partitioning, every
\* synthetic document returned has low <= value <= high.
C6_SyntheticWithinExplicitBounds ==
    range.kind = "NumericBounds" =>
        \A i \in 1..Len(out) :
            out[i].syn => (range.lo <= out[i].val /\ out[i].val <= range.hi)

\* C7: under explicit numeric bounds a pulled document whose value is below
\* low is returned unchanged by the same call, which generates nothing and
\* raises nothing; and the first synthetic document that follows such a
\* document in its partition has the value low.
C7_BelowLowPassesThrough ==
    range.kind = "NumericBounds" =>
        /\ (call.got /\ source[Len(source)].has /\ source[Len(source)].val < range.lo)
              => (/\ ret = Advanced(source[Len(source)])
                  /\ call.gens = 0
                  /\ failure = "none")
        /\ \A j \in 1..Len(out) :
              (/\ out[j].syn
               /\ \A i \in 1..(j - 1) : SamePartition(out[i], out[j]) => ~out[i].syn
               /\ \E i \in 1..(j - 1) :
                     /\ SamePartition(out[i], out[j])
                     /\ out[i].has /\ out[i].val < range.lo)
                  => out[j].val = range.lo

\* C8: under Full bounds every synthetic value lies between the smallest and
\* the largest value of the input; without partitioning every synthetic
\* document has a real document with the field before it and one after it
\* (already returned, or held by the generator as its final document), and
\* upstream EOF is answered with EndOfStream at once.
C8_FullSyntheticWithinObserved ==
    range.kind = "Full" =>
        /\ \A i \in 1..Len(out) :
              out[i].syn => (/\ SourceVals # {}
                             /\ SetMin(SourceVals) <= out[i].val
                             /\ out[i].val <= SetMax(SourceVals))
        /\ ~partitions =>
              /\ \A i \in 1..Len(out) :
                    out[i].syn =>
                        /\ \E a \in 1..(i - 1) : out[a].has /\ ~out[a].syn
                        /\ \/ \E b \in (i + 1)..Len(out) : out[b].has /\ ~out[b].syn
                           \/ docGenerator # None /\ docGenerator[1].finalDoc # None
              /\ eof => (ret.kind = "eof" /\ densifyState = "kDensifyDone")

\* C9: under Full bounds with partitioning and an input with at least one
\* document carrying the field: no call fails (other than on the limit); a
\* synthetic document above every real value of its partition is returned
\* only after upstream EOF; and when EndOfStream is returned every grid value
\* globalMin + k*step above a partition's last value and up to the global max
\* has been returned as a synthetic document of that partition.
C9_FullPartitionedFlushCoversToGlobalMax ==
    (range.kind = "Full" /\ partitions /\ SourceVals # {}) =>
        /\ LimitOnly
        /\ \A i \in 1..Len(out) :
              (out[i].syn /\ \A v \in KeyVals(out[i].key) : v < out[i].val) => eof
        /\ (ret.kind = "eof" /\ NoLimit) =>
              \A k \in {source[a].key : a \in WithField(source)} :
                  \A g \in (SetMax(KeyVals(k)) + 1)..SetMax(SourceVals) :
                      ((g - SetMin(SourceVals)) % Step = 0)
                          => SyntheticAt(out, 1..Len(out), k, g)

\* C10: under 'partition' bounds every synthetic document lies strictly
\* between two real documents of its own partition key, one returned before
\* it and one after it (already returned, or held by the generator as its
\* final document); nothing is generated at upstream EOF, which moves the
\* engine to Done with EndOfStream; and no call fails other than on the limit.
C10_PartitionLocalIsolation ==
    range.kind = "Partition" =>
        /\ LimitOnly
        /\ \A i \in 1..Len(out) :
              out[i].syn =>
                  /\ \E a \in 1..(i - 1) :
                        /\ ~out[a].syn /\ out[a].has
                        /\ out[a].key = out[i].key /\ out[a].val < out[i].val
                  /\ \/ \E b \in (i + 1)..Len(out) :
                           /\ ~out[b].syn /\ out[b].has
                           /\ out[b].key = out[i].key /\ out[i].val < out[b].val
                     \/ /\ docGenerator # None
                        /\ docGenerator[1].finalDoc # None
                        /\ docGenerator[1].finalDoc[1].key = out[i].key
                        /\ out[i].val < docGenerator[1].finalDoc[1].val
        /\ eof => (ret.kind = "eof" /\ densifyState = "kDensifyDone" /\ call.gens = 0)

\* Two partitions interleaved upstream; one of them had a gap that was filled,
\* and upstream EOF ended the run.
C10_Witness ==
    /\ range.kind = "Partition" /\ eof /\ ret.kind = "eof"
    /\ \E i, j, k, m \in 1..Len(out) :
          /\ i < j /\ j < k
          /\ ~out[i].syn /\ out[j].syn /\ ~out[k].syn
          /\ out[i].key = out[j].key /\ out[j].key = out[k].key
          /\ ~out[m].syn /\ out[m].has /\ out[m].key # out[j].key

\* The document pulled by the step just taken, when it pulled one.
PulledNow == source'[Len(source')]

PulledWithField == Len(source') > Len(source) /\ PulledNow.has

\* C11: with partitioning configured, under every bounds kind and in every
\* state that pulls, the first document (with the field) of a partition key
\* that is not yet in the partition table is registered in the table under
\* its key and is returned by that call as itself, with nothing generated.
C11_FirstOfPartitionRegistered ==
    [][(/\ partitions
        /\ PulledWithField
        /\ getDensifyPartition(PulledNow) \notin DOMAIN partitionTable)
          => (/\ failure' = "none"
              /\ ret' = Advanced(PulledNow)
              /\ call'.gens = 0
              /\ getDensifyPartition(PulledNow) \in DOMAIN partitionTable')]_vars

\* C12: a pulled document that lacks the densify field is returned unchanged
\* by the same call, which leaves the densify state, the current value, the
\* global min and max, the partition table, the generator and the count of
\* generated documents as they were.
C12_MissingFieldPassesThrough ==
    [][(Len(source') > Len(source) /\ ~PulledNow.has)
          => (/\ failure' = "none"
              /\ ret' = Advanced(PulledNow)
              /\ call'.gens = 0
              /\ UNCHANGED <<densifyState, current, globalMin, globalMax, eof,
                             partitionTable, partitionExpr, docGenerator,
                             docsGenerated>>)]_vars

\* A document without the field was pulled and returned while the engine
\* held a current value and a partition table entry.
C12_Witness ==
    /\ call.got /\ ~source[Len(source)].has
    /\ ret = Advanced(source[Len(source)])
    /\ densifyState = "kNeedGen"
    /\ current # None
    /\ DOMAIN partitionTable # {}

\* The synthetic documents returned so far.
Synthetic(docs) == {i \in 1..Len(docs) : docs[i].syn}

\* C13 (as stated): with a limit of N generated documents, at most N
\* synthetic documents are ever returned; the (N+1)-th never is.
C13_AtMostLimitReturned == Cardinality(Synthetic(out)) <= maxDocs

\* C13 (amended): the limit is checked on entry to the next call, so at most
\* N + 1 synthetic documents are ever returned; the count of generated
\* documents is the number of synthetic documents returned; and the limit
\* error is raised exactly when N + 1 of them have been returned.
C13_AtMostLimitPlusOneReturned ==
    /\ docsGenerated = Cardinality(Synthetic(out))
    /\ Cardinality(Synthetic(out)) <= maxDocs + 1
    /\ failure = "uassert5897900" => Cardinality(Synthetic(out)) = maxDocs + 1

\* The limit error was raised after N + 1 synthetic documents were returned
\* around real ones.
C13_Witness ==
    /\ failure = "uassert5897900"
    /\ Cardinality(Synthetic(out)) = maxDocs + 1
    /\ Len(out) > maxDocs + 1

\* C14: once more synthetic documents have been generated than the limit
\* allows, every call, in every state, fails with the limit error and returns
\* nothing; EndOfStream is not returned in such a run (nothing is generated
\* after an EndOfStream); and the limit error is raised only when the count
\* is over the limit, so a run of exactly N synthetic documents ends cleanly.
C14_LimitIsNeverSilent ==
    /\ [](docsGenerated > maxDocs => ret.kind # "eof")
    /\ [](failure = "uassert5897900" => docsGenerated > maxDocs)
    /\ [][docsGenerated > maxDocs
             => (failure' = "uassert5897900" /\ ret' = Thrown /\ out' = out)]_vars
    /\ [][ret.kind = "eof" => docsGenerated' = docsGenerated]_vars

\* The limit error was raised by a call made in state Done.
C14_Witness ==
    /\ failure = "uassert5897900"
    /\ call.st = "kDensifyDone"
    /\ docsGenerated = maxDocs + 1

\* C15: for every accepted configuration and every ordered input, the only
\* failure a call can raise is the generated-document limit error.
C15_OnlyLimitFailure == failure \in {"none", "uassert5897900"}

\* C16 (as stated): once the state is Done, every later call returns
\* EndOfStream and the state stays Done.
C16_DoneReturnsOnlyEOF ==
    [][densifyState = "kDensifyDone"
          => (ret'.kind = "eof" /\ densifyState' = "kDensifyDone")]_vars

\* C16 (amended): once the state is Done it stays Done and nothing more is
\* generated; a call either raises the limit error or returns what upstream
\* answers: EndOfStream, or under explicit bounds the next upstream document
\* unchanged.
C16_DoneIsTerminal ==
    [][densifyState = "kDensifyDone"
          => (/\ densifyState' = "kDensifyDone"
              /\ docsGenerated' = docsGenerated
              /\ call'.gens = 0
              /\ \/ failure' = "uassert5897900" /\ ret' = Thrown
                 \/ failure' = "none" /\ ret'.kind = "eof"
                 \/ /\ failure' = "none"
                    /\ range.kind = "NumericBounds"
                    /\ Len(source') > Len(source)
                    /\ ret' = Advanced(PulledNow))]_vars

\* A call made in state Done returned an upstream document with the field,
\* and the engine stayed in Done.
C16_Witness ==
    /\ call.st = "kDensifyDone" /\ densifyState = "kDensifyDone"
    /\ call.got /\ source[Len(source)].has
    /\ ret = Advanced(source[Len(source)])

\* C17: a call pulls from upstream at most once and steps a generator at most
\* once before it returns, and a call made in state HaveGenerator or
\* FinishingDensify does not pull at all.
C17_OnePullOneStepPerCall ==
    /\ call.pulls <= 1
    /\ call.gens <= 1
    /\ call.st \in {"kHaveGenerator", "kFinishingDensify"} => call.pulls = 0

\* One call pulled a document, built a generator for the gap before it and
\* returned the generator's first document.
C17_Witness ==
    /\ call.pulls = 1 /\ call.got /\ call.gens = 1
    /\ ret.kind = "advanced" /\ ret.doc.syn

\* The range specifications the claim lists as rejected.
StepNotPositiveNumber(spec) == ~(spec.step.t = "number" /\ spec.step.v > 0)

IsArray(spec) == spec.bounds.type = "Array"

ArrayNotPair(spec) == IsArray(spec) /\ Len(spec.bounds.array) # 2

IsPair(spec) == IsArray(spec) /\ Len(spec.bounds.array) = 2

PairTypes(spec) == {spec.bounds.array[1].t, spec.bounds.array[2].t}

\* low > high: the first bound sorts after the second.
PairNotAscending(spec) ==
    /\ IsPair(spec)
    /\ LET low == spec.bounds.array[1]
           high == spec.bounds.array[2]
       IN \/ TypeRank(low) > TypeRank(high)
          \/ TypeRank(low) = TypeRank(high) /\ low.v > high.v

NumericWithUnit(spec) == IsPair(spec) /\ PairTypes(spec) = {"number"} /\ spec.unit # None

DatesWithoutUnit(spec) == IsPair(spec) /\ PairTypes(spec) = {"date"} /\ spec.unit = None

MixedPair(spec) == IsPair(spec) /\ PairTypes(spec) = {"number", "date"}

NeitherNumbersNorDates(spec) ==
    IsPair(spec) /\ PairTypes(spec) \ {"number", "date"} # {}

UnknownBoundsString(spec) ==
    spec.bounds.type = "String" /\ spec.bounds.str \notin {"full", "partition"}

NeitherStringNorArray(spec) == spec.bounds.type \notin {"String", "Array"}

ListedAsRejected(spec) ==
    \/ StepNotPositiveNumber(spec)
    \/ ArrayNotPair(spec)
    \/ PairNotAscending(spec)
    \/ NumericWithUnit(spec)
    \/ DatesWithoutUnit(spec)
    \/ MixedPair(spec)
    \/ NeitherNumbersNorDates(spec)
    \/ UnknownBoundsString(spec)

\* The accepted statement has the step, the bounds and the unit of the spec.
SameAsSpec(r, spec) ==
    /\ r.step = spec.step.v
    /\ r.unit = (IF spec.unit = None THEN None ELSE Some(parseTimeUnit(spec.unit[1])))
    /\ IF spec.bounds.type = "String"
       THEN r.bounds.kind = (IF spec.bounds.str = "full" THEN "Full" ELSE "Partition")
       ELSE /\ r.bounds.kind = (IF spec.bounds.array[1].t = "number"
                                THEN "NumericBounds" ELSE "DateBounds")
            /\ r.bounds.lo = spec.bounds.array[1].v
            /\ r.bounds.hi = spec.bounds.array[2].v

\* C18 (as stated): RangeStatement::parse rejects exactly the listed range
\* specifications, and every other one yields a statement with the same
\* step, bounds and unit.
C18_ParseRejectsExactlyListed ==
    created # NotCreated =>
        /\ ~created.range.ok <=> ListedAsRejected(stageSpec.range)
        /\ created.range.ok => SameAsSpec(created.range, stageSpec.range)

\* C18 (amended): the same, with bounds that are neither a string nor an
\* array added to the rejected specifications.
C18_ParseRejectsListedOrScalar ==
    created # NotCreated =>
        /\ ~created.range.ok <=>
              (ListedAsRejected(stageSpec.range) \/ NeitherStringNorArray(stageSpec.range))
        /\ created.range.ok => SameAsSpec(created.range, stageSpec.range)
        /\ ~created.range.ok => ~created.ok

\* Numeric bounds with low = high and no unit were accepted.
C18_Witness ==
    /\ created.range.ok
    /\ IsPair(stageSpec.range)
    /\ stageSpec.range.bounds.array[1] = stageSpec.range.bounds.array[2]
    /\ created.range.bounds.kind = "NumericBounds"

PartitionFieldsGiven ==
    stageSpec.partitionByFields # None /\ Len(stageSpec.partitionByFields[1]) > 0

\* C19: construction fails with a configuration error whenever the bounds are
\* 'partition' and partitionByFields is absent or empty, so no stage exists
\* in that combination; with 'full' or explicit bounds a parsed range is
\* accepted whatever the partition list.
C19_PartitionBoundsNeedPartitionFields ==
    created # NotCreated =>
        /\ (created.range.ok /\ created.range.bounds.kind = "Partition"
               /\ ~PartitionFieldsGiven)
              => (~created.ok /\ created.code = 5733408)
        /\ created.ok => (created.range.bounds.kind = "Partition" => created.partitions)
        /\ created.ok => created.partitions = PartitionFieldsGiven
        /\ (created.range.ok /\ created.range.bounds.kind # "Partition") => created.ok

\* 'partition' bounds with an empty partitionByFields array were refused.
C19_Witness ==
    /\ ~created.ok /\ created.code = 5733408
    /\ stageSpec.partitionByFields = Some(<<>>)

\* C20: for an input ascending on the densify field, every DocGenerator the
\* engine constructs starts at or below the upper bound of its range:
\* assertion 5733303 never fires.
C20_GeneratorPreconditionHolds ==
    AscendingOnField(source) => failure # "tassert5733303"

Generator == docGenerator[1]

\* C21: the generator starts generating; once the value after the one just
\* produced is above the upper bound it is ReturningFinal if it has a final
\* document and Done otherwise; in ReturningFinal one more call returns the
\* final document as it is and the generator is Done; the final document is
\* returned once, after every synthetic document; a call in Done fails on an
\* assertion and the generator stays Done.
C21_GeneratorStateMachine ==
    /\ [](Len(out) = 0 => Generator.state = "kGeneratingDocuments")
    /\ [](GeneratorDone(Generator) <=> Generator.state = "kDone")
    /\ [](\A i \in 1..Len(out) :
             ~out[i].syn => (/\ i = Len(out)
                             /\ Generator.state = "kDone"
                             /\ Generator.finalDoc = Some(out[i])))
    /\ [][Generator.state = "kGeneratingDocuments"
             => (/\ failure' = "none" /\ ret'.kind = "advanced" /\ ret'.doc.syn
                 /\ Generator'.state =
                       IF ret'.doc.val + Generator.step <= Generator.hi
                       THEN "kGeneratingDocuments"
                       ELSE IF Generator.finalDoc # None
                            THEN "kReturningFinalDocument" ELSE "kDone")]_vars
    /\ [][Generator.state = "kReturningFinalDocument"
             => (/\ failure' = "none"
                 /\ ret' = Advanced(Generator.finalDoc[1])
                 /\ Generator'.state = "kDone")]_vars
    /\ [][Generator.state = "kDone"
             => (/\ failure' = "tassert5733301" /\ ret' = Thrown
                 /\ out' = out /\ Generator' = Generator)]_vars

\* Several synthetic documents, then the final document, then a failed call
\* on the finished generator.
C21_Witness ==
    /\ failure = "tassert5733301"
    /\ Len(out) >= 3
    /\ ~out[Len(out)].syn
    /\ out[1].syn

\* The number of grid values a, a + s, ... that do not exceed b.
GridSize == ((range.hi - range.lo) \div range.step) + 1

SyntheticCount == Cardinality(Synthetic(out))

\* C22: a generator built with start a, step s and upper bound b >= a
\* returns a, a + s, ..., a + k*s with k = floor((b - a) / s): each once,
\* ascending, none above b, each the carry fields plus the densify value.
C22_GeneratorProducesGrid ==
    /\ SyntheticCount <= GridSize
    /\ \A i \in 1..Len(out) :
          IF i <= GridSize
          THEN out[i] = GeneratedDoc(Generator.includeFields, range.lo + (i - 1) * range.step)
          ELSE ~out[i].syn
    /\ Generator.state # "kGeneratingDocuments" => SyntheticCount = GridSize
    /\ docsGenerated = SyntheticCount

\* A finished generator with carry fields whose last value fell short of the
\* upper bound (the bound is off the grid).
C22_Witness ==
    /\ Generator.state = "kDone"
    /\ Generator.includeFields # None
    /\ SyntheticCount >= 2
    /\ range.lo + (GridSize - 1) * range.step < range.hi

\* A call made in HaveGenerator that passes the limit check.
HaveGeneratorCall == densifyState = "kHaveGenerator" /\ WithinLimit

\* What the live generator hands out next.
GeneratorNext ==
    IF Generator.state = "kReturningFinalDocument"
    THEN Generator.finalDoc[1]
    ELSE GeneratedDoc(Generator.includeFields, Generator.min)

\* C23 (as stated): a call in HaveGenerator returns the generator's next
\* document; when that leaves the generator done it is discarded and the
\* next state is NeedGen if upstream EOF has not been seen and
\* FinishingDensify if it has, for every bounds kind.
C23_GeneratorDoneLeadsToNeedGenOrFinishing ==
    [][HaveGeneratorCall
          => (/\ failure' = "none"
              /\ ret' = Advanced(GeneratorNext)
              /\ IF docGenerator' = None
                 THEN densifyState' = (IF eof THEN "kFinishingDensify" ELSE "kNeedGen")
                 ELSE densifyState' = "kHaveGenerator")]_vars

\* C23 (amended): the same, except that the next state is Done under
\* explicit bounds once the current value has reached the upper bound and no
\* partition expression exists; otherwise it is FinishingDensify if upstream
\* EOF has been seen and a partition expression exists, and NeedGen if not.
C23_GeneratorDoneLeadsToNextState ==
    [][HaveGeneratorCall
          => (/\ failure' = "none"
              /\ ret' = Advanced(GeneratorNext)
              /\ IF docGenerator' = None
                 THEN densifyState' =
                          (IF /\ range.kind = "NumericBounds"
                              /\ ~partitionExpr
                              /\ current'[1] >= range.hi
                           THEN "kDensifyDone"
                           ELSE IF partitionExpr /\ eof THEN "kFinishingDensify"
                           ELSE "kNeedGen")
                 ELSE /\ densifyState' = "kHaveGenerator"
                      /\ ~GeneratorDone(docGenerator'[1]))]_vars

\* After upstream EOF a call in HaveGenerator finished the generator of a
\* partition and the engine went on flushing.
C23_Witness ==
    /\ call.st = "kHaveGenerator"
    /\ docGenerator = None
    /\ densifyState = "kFinishingDensify"
    /\ range.kind = "NumericBounds"
    /\ ret.kind = "advanced"

\* C24: between calls the state is HaveGenerator exactly when a generator
\* exists and is not done, no generator exists in any other state, the state
\* is FinishingDensify only with the end-of-stream flag set, and assertions
\* 5733203, 8423305 and 5734402 do not fire.
C24_StateAndGeneratorAgree ==
    /\ failure \notin {"tassert5733203", "tassert8423305", "tassert5734402"}
    /\ failure \in {"none", "uassert5897900"} =>
          /\ densifyState = "kHaveGenerator"
                <=> (docGenerator # None /\ ~GeneratorDone(docGenerator[1]))
          /\ densifyState # "kHaveGenerator" => docGenerator = None
          /\ densifyState = "kFinishingDensify" => eof

\* Mid-flush: upstream EOF has been seen, a generator is live for one
\* partition and another partition is still in the table.
C24_Witness ==
    /\ densifyState = "kHaveGenerator" /\ eof
    /\ docGenerator # None /\ ~GeneratorDone(docGenerator[1])
    /\ DOMAIN partitionTable # {}

RealReturned == SelectSeq(out, LAMBDA d : ~d.syn)

\* The real record a live generator still holds as its final document.
Buffered ==
    IF docGenerator # None /\ docGenerator[1].finalDoc # None
                           /\ ~GeneratorDone(docGenerator[1])
    THEN docGenerator[1].finalDoc
    ELSE <<>>

\* C25: the non-synthetic records returned are the upstream records,
\* unmodified, once each and in upstream order: all of them when the run ends
\* in EndOfStream, and before that all but a record buffered as a generator's
\* final document, which is therefore returned after the generator's
\* synthetic records and before any later upstream record.
C25_RealRecordsPreserved ==
    failure = "none" =>
        /\ source = RealReturned \o Buffered
        /\ ret.kind = "eof" => source = RealReturned

\* A run that ended in EndOfStream after returning a buffered record behind
\* the synthetic records of its generator, with several real records.
C25_Witness ==
    /\ ret.kind = "eof" /\ failure = "none"
    /\ Len(source) >= 2
    /\ \E i \in 1..Len(out) - 1 : out[i].syn /\ ~out[i + 1].syn /\ out[i + 1].has

DoneCall == densifyState = "kDensifyDone" /\ WithinLimit

\* C26: under explicit numeric bounds without partitioning, a call made in
\* Done pulls once and returns exactly what upstream answered, a remaining
\* real record unchanged; nothing is generated, the generated-document
\* counter keeps its value and the state stays Done.  Under Full bounds Done
\* is entered only after upstream EndOfStream, so the pull in Done returns
\* EndOfStream and assertion 5734005 does not fire.
C26_DonePassesUpstreamThrough ==
    /\ [][(DoneCall /\ range.kind = "NumericBounds" /\ ~partitions)
            => (/\ failure' = "none"
                /\ call'.pulls = 1
                /\ ret' = (IF Len(source') > Len(source)
                           THEN Advanced(PulledNow) ELSE MakeEOF)
                /\ ~ret'.doc.syn
                /\ call'.gens = 0
                /\ docsGenerated' = docsGenerated
                /\ docGenerator' = None
                /\ densifyState' = "kDensifyDone")]_vars
    /\ [][(DoneCall /\ range.kind = "Full")
            => (failure' = "none" /\ ret' = MakeEOF /\ source' = source)]_vars
    /\ []((range.kind = "Full" /\ densifyState = "kDensifyDone") => (srcDone /\ eof))

\* After the explicit range was densified with synthetic records, a call in
\* Done returned a real record above the range.
C26_Witness ==
    /\ range.kind = "NumericBounds" /\ ~partitions
    /\ call.st = "kDensifyDone" /\ call.got
    /\ ret.kind = "advanced" /\ ret.doc.has /\ ret.doc.val > range.hi
    /\ docsGenerated > 0

\* Full bounds: a call was made in Done after upstream EndOfStream.
C26_WitnessFull ==
    range.kind = "Full" /\ call.st = "kDensifyDone" /\ ret.kind = "eof" /\ Len(out) > 1

\* C27: explicit numeric bounds with partitioning: when the engine returns
\* EndOfStream, for every partition key that occurs in the input with the
\* field, every grid value low + k*step up to high that the partition did
\* not itself contain has been returned as a synthetic document of that key.
C27_ExplicitPartitionsCoveredAfterEOF ==
    (/\ range.kind = "NumericBounds" /\ partitions /\ NoLimit
     /\ ret.kind = "eof" /\ failure = "none") =>
        \A k \in {source[a].key : a \in WithField(source)} :
            \A g \in range.lo..range.hi :
                ((g - range.lo) % Step = 0 /\ g \notin KeyVals(k))
                    => SyntheticAt(out, 1..Len(out), k, g)

\* Position of the last real document returned (0 when there is none).  No
\* call pulls while a generator is live, so once upstream EOF has been seen
\* the documents returned after this position are those of the EOF flush.
LastRealReturned ==
    IF \E i \in 1..Len(out) : ~out[i].syn
    THEN CHOOSE i \in 1..Len(out) : ~out[i].syn /\ \A j \in (i + 1)..Len(out) : out[j].syn
    ELSE 0

FlushPositions == IF eof THEN (LastRealReturned + 1)..Len(out) ELSE {}

\* C28: during the EOF flush of partitioned Full or explicit input each
\* partition key is flushed by one generator at most (its documents form one
\* run of consecutive steps), no synthetic value is returned twice for a key,
\* and the engine is in Done after the flush only with an empty table.
C28_FlushOncePerPartition ==
    (partitions /\ range.kind \in {"Full", "NumericBounds"}) =>
        /\ \A i, j \in FlushPositions :
              (i < j /\ out[i].key = out[j].key) =>
                  /\ out[j].val = out[i].val + (j - i) * Step
                  /\ \A m \in i..j : out[m].key = out[i].key
        /\ (eof /\ densifyState = "kDensifyDone") => DOMAIN partitionTable = {}

\* The flush has served two partitions, the first with several documents
\* (so HaveGenerator bookkeeping ran during the flush), and reached Done.
C28_Witness ==
    /\ partitions /\ eof /\ densifyState = "kDensifyDone" /\ failure = "none"
    /\ \E i, j, m \in FlushPositions :
          /\ i < j /\ j < m
          /\ out[i].key = out[j].key /\ out[j].key # out[m].key

\* The step runs the EOF flush: it is the call that observes upstream EOF, or
\* a call made in FinishingDensify.
FlushRuns == WithinLimit /\ (densifyState = "kFinishingDensify" \/ (~eof /\ eof'))

\* C29: under Full bounds with partitioning, whenever the EOF flush runs with
\* a non-empty partition table the global max has been recorded.
C29_GlobalMaxSetAtFlush ==
    [][(/\ range.kind = "Full" /\ partitions
        /\ FlushRuns
        /\ DOMAIN partitionTable # {})
          => globalMax # None]_vars

\* The carry fields of a synthetic document of partition k.
CarryOf(k) == IF partitions THEN Some(k) ELSE None

SyntheticReturned == failure' = "none" /\ ret'.kind = "advanced" /\ ret'.doc.syn

\* Entries of the partition table under keys other than k are not written
\* by the step (they may be erased).
OnlyEntryWritten(k) ==
    \A j \in DOMAIN partitionTable' \ {k} :
        j \in DOMAIN partitionTable /\ partitionTable'[j] = partitionTable[j]

\* The last three conjuncts of C30: what the step that returns a synthetic
\* document does, by the kind of call.
C30_Steps ==
    /\ [][(SyntheticReturned /\ Len(source') > Len(source))
            => (/\ GeneratedDoc(CarryOf(PulledNow.key), ret'.doc.val) = ret'.doc
                /\ docGenerator' # None
                /\ docGenerator'[1].finalDoc = Some(PulledNow)
                /\ OnlyEntryWritten(PulledNow.key))]_vars
    /\ [][(SyntheticReturned /\ densifyState = "kHaveGenerator")
            => (/\ GeneratedDoc(Generator.includeFields, ret'.doc.val) = ret'.doc
                /\ OnlyEntryWritten(ret'.doc.key))]_vars
    /\ [][(SyntheticReturned /\ partitions /\ FlushRuns /\ partitionExpr)
            => (/\ ret'.doc.key \in DOMAIN partitionTable
                /\ ret'.doc.key \notin DOMAIN partitionTable'
                /\ OnlyEntryWritten(ret'.doc.key))]_vars

\* C30 (as stated): with partitioning configured every synthetic document
\* carries exactly the partition key of the real document that triggered its
\* generator, or of the table entry being flushed, plus the densify field,
\* and the step that returns it writes only that key's table entry; without
\* partitioning a synthetic document carries the densify field only.
C30_SyntheticCarriesTriggerPartition ==
    /\ [](\A i \in 1..Len(out) :
            out[i].syn => (/\ out[i].has
                           /\ out[i].key \in (IF partitions THEN Keys ELSE {NoKey})))
    /\ [](docGenerator # None =>
            /\ docGenerator[1].includeFields # None <=> partitions
            /\ docGenerator[1].finalDoc # None =>
                  docGenerator[1].includeFields = CarryOf(docGenerator[1].finalDoc[1].key))
    /\ C30_Steps

\* C30 (amended): the same once the partition expression has been built,
\* that is once a document with the densify field has been pulled; the
\* synthetic documents returned when upstream ends before that, under
\* explicit bounds, carry the densify field only, as they do without
\* partitioning.
C30_SyntheticCarriesPartitionOnceBuilt ==
    /\ [](\A i \in 1..Len(out) :
            out[i].syn => (/\ out[i].has
                           /\ out[i].key \in (IF partitionExpr THEN Keys ELSE {NoKey})))
    /\ [](docGenerator # None =>
            /\ docGenerator[1].includeFields # None <=> partitionExpr
            /\ docGenerator[1].finalDoc # None =>
                  docGenerator[1].includeFields = CarryOf(docGenerator[1].finalDoc[1].key))
    /\ [](partitionExpr <=> (partitions /\ WithField(source) # {}))
    /\ C30_Steps

\* Partitioned input: a generator triggered by a real document of the second
\* partition returned a synthetic document of that partition while the first
\* partition kept its table entry.
C30_Witness ==
    /\ partitions /\ failure = "none"
    /\ ret.kind = "advanced" /\ ret.doc.syn /\ ret.doc.key = 2
    /\ docGenerator # None /\ docGenerator[1].finalDoc # None
    /\ docGenerator[1].finalDoc[1].key = 2
    /\ 1 \in DOMAIN partitionTable

\* C31: for every finite upstream stream, every numeric configuration and
\* every limit, a consumer that keeps calling doGetNext eventually receives
\* EndOfStream or the limit error.
C31_EventuallyEOFOrLimit == <>(ret.kind = "eof" \/ failure = "uassert5897900")

\* C32: the generated-document counter equals the number of synthetic
\* documents returned so far; a call that returns a synthetic document
\* raises it by exactly one, and a call that returns a real document (passed
\* through, or a generator's final document), EndOfStream or an error leaves
\* it unchanged, so it never decreases.
C32_CounterCountsSynthetic ==
    /\ [](docsGenerated = Cardinality(Synthetic(out)))
    /\ [][docsGenerated' =
              docsGenerated + (IF SyntheticReturned THEN 1 ELSE 0)]_vars

\* A generator has returned two synthetic documents and then its final,
\* real document.
C32_Witness ==
    /\ docsGenerated = 2
    /\ call.st = "kHaveGenerator" /\ call.gens = 1
    /\ ret.kind = "advanced" /\ ~ret.doc.syn
    /\ Len(out) >= 3 /\ out[Len(out) - 1].syn

\* v = origin + k*step for some integer k >= 0.
OnGrid(v, origin) == v >= origin /\ (v - origin) % Step = 0

\* The first value observed in partition k.
FirstKeyVal(k) ==
    LET idx == {a \in WithField(source) : source[a].key = k}
    IN source[CHOOSE a \in idx : \A b \in idx : a <= b].val

C33_ExplicitOnGrid ==
    range.kind = "NumericBounds" =>
        \A i \in 1..Len(out) : out[i].syn => OnGrid(out[i].val, range.lo)

C33_FullOnGrid ==
    range.kind = "Full" =>
        \A i \in 1..Len(out) :
            out[i].syn => (globalMin # None /\ OnGrid(out[i].val, globalMin[1]))

C33_PartitionOnGrid ==
    range.kind = "Partition" =>
        \A i \in 1..Len(out) :
            out[i].syn => (/\ KeyVals(out[i].key) # {}
                           /\ OnGrid(out[i].val, FirstKeyVal(out[i].key)))

\* C33: all synthetic values lie on one step grid: low + k*step under
\* explicit bounds (in every partition, before and after upstream EOF),
\* globalMin + k*step under Full bounds, and the partition's first observed
\* value + k*step under Partition bounds, with k >= 0.
C33_SyntheticOnOneGrid == C33_ExplicitOnGrid /\ C33_FullOnGrid /\ C33_PartitionOnGrid

DateSpecWellFormed ==
    /\ stageSpec.range.step.t = "number" /\ stageSpec.range.step.v > 0
    /\ stageSpec.range.bounds.array[1].v <= stageSpec.range.bounds.array[2].v
    /\ stageSpec.range.unit # None

CallOfCreated == created.ok /\ created' = created

\* C34: a specification with a pair of dates as bounds and a unit (a positive
\* step, low <= high) is accepted with date bounds, but the engine does not
\* densify it: a call that pulls a document with the densify field, or that
\* observes upstream EOF, raises an internal assertion and returns nothing;
\* documents lacking the field pulled before that are returned unchanged.
C34_DateBoundsAcceptedButNotDensified ==
    /\ []((created # NotCreated /\ DateSpecWellFormed)
            => (/\ created.ok
                /\ created.range.bounds.kind = "DateBounds"
                /\ range.kind = "DateBounds"))
    /\ [](created.ok => (/\ densifyState = "kUninitializedOrBelowRange"
                         /\ docsGenerated = 0
                         /\ \A i \in 1..Len(out) : ~out[i].syn /\ ~out[i].has))
    /\ [][CallOfCreated =>
            IF PulledWithField
            THEN failure' = "tassert5733412" /\ ret' = Thrown /\ out' = out
            ELSE IF srcDone'
            THEN failure' = "tasserted5734000" /\ ret' = Thrown /\ out' = out
            ELSE /\ failure' = "none"
                 /\ ret' = Advanced(PulledNow)
                 /\ out' = Append(out, PulledNow)]_vars

\* A document lacking the field passed through, then the call that pulled a
\* document with the field failed.
C34_Witness ==
    /\ created.ok /\ range.kind = "DateBounds"
    /\ Len(out) >= 1
    /\ failure = "tassert5733412"

\* The sort key the user-facing stage is to have: the partition fields in
\* their configured order, unless the bounds are "full", then the densify
\* field.
SpecPartitionFields ==
    IF stageSpec.partitionByFields = None THEN <<>> ELSE stageSpec.partitionByFields[1]

SpecBoundsFull ==
    stageSpec.range.bounds.type = "String" /\ stageSpec.range.bounds.str = "full"

ExpectedSortKey ==
    IF SpecBoundsFull THEN <<DensifyField>>
    ELSE SpecPartitionFields \o <<DensifyField>>

\* C35: create() for the user-facing stage returns exactly two stages, a
\* sort followed by the internal densify stage, the sort key being the
\* partition fields in their configured order (none under Full bounds)
\* followed by the densify field; create() for the internal stage returns
\* the internal densify stage alone.
C35_StageDesugaring ==
    /\ results.code # 5733413
    /\ (results.by = "$densify" /\ results.ok) =>
          /\ Len(results.stages) = 2
          /\ results.stages[1].name = "$sort"
          /\ results.stages[1].sortParts = ExpectedSortKey
          /\ results.stages[2].name = "$_internalDensify"
          /\ results.stages[2].field = DensifyField
          /\ results.stages[2].partitions = SpecPartitionFields
    /\ (results.by = "$_internalDensify" /\ results.ok) =>
          /\ Len(results.stages) = 1
          /\ results.stages[1].name = "$_internalDensify"
          /\ results.stages[1].field = DensifyField
          /\ results.stages[1].partitions = SpecPartitionFields

\* Full bounds with two partition fields: the sort key is the densify field
\* alone.
C35_Witness ==
    /\ results.by = "$densify" /\ results.ok
    /\ SpecBoundsFull
    /\ SpecPartitionFields = <<"q", "p">>
    /\ results.stages[1].sortParts = <<DensifyField>>

\* Explicit bounds with two partition fields: they lead the sort key in the
\* configured order.
C35_WitnessOrdered ==
    /\ results.by = "$densify" /\ results.ok
    /\ ~SpecBoundsFull
    /\ results.stages[1].sortParts = <<"q", "p", DensifyField>>

====
